---- MODULE Spec2Model ----
(***************************************************************************)
(* A model of the Apache Jira scraper of src/main.py: the retrying fetcher *)
(* (fetch_with_retry), the comment enricher (fetch_comments), the          *)
(* checkpoint store (load_checkpoint / save_checkpoint), the status        *)
(* tracker (update_status), the per-project paging loop (scrape_project),  *)
(* the background run (run_scraper) and the routes that start and reset    *)
(* it (start_scraping, reset_scraper).                                     *)
(*                                                                         *)
(* Two families of specifications share the module.  SpecFetch applies     *)
(* fetch_with_retry to every stream of server responses of ScriptLen       *)
(* entries.  Spec is the running service: the files on disk, the global    *)
(* scraping_status and the position of each background run; SpecSafe and   *)
(* SpecLive are the service with no Reset overlapping an active run.       *)
(* SpecRuns is the service without Reset, SpecCrash adds the death and    *)
(* restart of the process, SpecStats adds GET /stats (get_stats over       *)
(* calculate_stats), and SpecStatus is update_status on its own, called    *)
(* with any arguments.                                                     *)
(***************************************************************************)
EXTENDS Integers, Sequences, FiniteSets, TLC

\* Python's None.
None == "None"

(***************************************************************************)
(* Program constants and the bounds of the model.                          *)
(***************************************************************************)

\* PROJECTS (main.py:13), in list order.
PROJECTS == <<"SPARK", "HADOOP", "KAFKA">>

Projects == {PROJECTS[k] : k \in 1..Len(PROJECTS)}

\* MAX_RESULTS (main.py:14) is 10 in the source.  The paging loop is
\* parametric in it; the model scales it down, and treats it as a bound.
MAX_RESULTS == 2

\* retries=5, the default of fetch_with_retry (main.py:67); no caller passes
\* another value.
Retries == 5

\* The largest number of items the source holds, all projects together.
MaxItems == 3

\* How many route calls change the state in one behaviour: StartIngestion
\* calls that are accepted, and Reset calls.
MaxCalls == 3

(***************************************************************************)
(* RetryingFetcher: fetch_with_retry (main.py:67-85).                      *)
(*                                                                         *)
(* A response is what one session.get produces: "ok" is a status that is   *)
(* none of 429, 5xx, 404 with a JSON body, "exc" is a transport error, a   *)
(* timeout or a body that is not JSON (the except branch), the others are  *)
(* the statuses the code tests for.                                        *)
(***************************************************************************)
Responses == {"ok", "r404", "r429", "r500", "r599", "exc"}

\* resp.status; 0 stands for "no response" (the request raised).
Status(resp) ==
    CASE resp = "ok"   -> 200
      [] resp = "r404" -> 404
      [] resp = "r429" -> 429
      [] resp = "r500" -> 500
      [] resp = "r599" -> 599
      [] resp = "exc"  -> 0

\* await resp.json()
Body(resp) == IF resp = "ok" THEN "payload" ELSE None

\* C8 mutant: a 429 ends the call at once instead of consuming an attempt.
classify_429_gives_up(resp) ==
    IF resp = "exc" THEN "retry"
    ELSE IF Status(resp) = 429 THEN "absent"
    ELSE IF 500 <= Status(resp) /\ Status(resp) < 600 THEN "retry"
    ELSE IF Status(resp) = 404 THEN "absent"
    ELSE "return"

\* C7 mutant: only status 500 itself is retried, not the whole 5xx range.
classify_only_500(resp) ==
    IF resp = "exc" THEN "retry"
    ELSE IF Status(resp) = 429 THEN "retry"
    ELSE IF Status(resp) = 500 THEN "retry"
    ELSE IF Status(resp) = 404 THEN "absent"
    ELSE "return"

\* C9 mutant: a 404 is retried like a server error.
classify_404_retried(resp) ==
    IF resp = "exc" THEN "retry"
    ELSE IF Status(resp) = 429 THEN "retry"
    ELSE IF 500 <= Status(resp) /\ Status(resp) < 600 THEN "retry"
    ELSE IF Status(resp) = 404 THEN "retry"
    ELSE "return"

\* What one iteration of the attempt loop does with a response
\* (main.py:69-84): "retry" is sleep-and-continue (429, 5xx, exception),
\* "absent" is return None (404), "return" is return await resp.json().
classify(resp) ==
    IF resp = "exc" THEN "retry"
    ELSE IF Status(resp) = 429 THEN "retry"
    ELSE IF 500 <= Status(resp) /\ Status(resp) < 600 THEN "retry"
    ELSE IF Status(resp) = 404 THEN "absent"
    ELSE "return"

\* for attempt in range(retries): ... return None.  stream[k] is the
\* server's answer to the k-th request of the call; every iteration issues
\* one request, and every exception of an iteration is caught
\* (main.py:82), so the call always returns.  The value is the returned
\* payload (or None) and the number of requests issued.
RECURSIVE attempt_loop(_, _, _)
attempt_loop(stream, attempt, retries) ==
    IF attempt >= retries
    THEN [result |-> None, requests |-> attempt]
    ELSE LET resp == stream[attempt + 1]
             what == classify(resp)
         IN  IF what = "retry"
             THEN attempt_loop(stream, attempt + 1, retries)
             ELSE IF what = "absent"
             THEN [result |-> None, requests |-> attempt + 1]
             ELSE [result |-> Body(resp), requests |-> attempt + 1]

fetch_with_retry(stream, retries) == attempt_loop(stream, 0, retries)

\* A response stream is one entry longer than the budget, so that a request
\* past the budget would have an answer.
ScriptLen == Retries + 1

Scripts == [1..ScriptLen -> Responses]

\* The results fetch_with_retry can hand to its caller.
FetchOutcomes == {fetch_with_retry(s, Retries).result : s \in Scripts}

(***************************************************************************)
(* The remote source.  Project p holds source[p] items, numbered from 0;   *)
(* a search at startAt = s answers with the items s .. s+maxResults-1 that *)
(* exist and with "total" = source[p].  Item i carries i % 2 comments.     *)
(***************************************************************************)
Items == Projects \X (0..(MaxItems - 1))

Min(a, b) == IF a < b THEN a ELSE b

\* The "issues" list of the search response, as (first index, length).
PageAt(total, start_at) ==
    [first |-> start_at,
     len   |-> IF start_at >= total THEN 0
               ELSE Min(MAX_RESULTS, total - start_at)]

\* C1 mutant: start_at advances by the page size asked for, not by the
\* number of issues received.
NextStart_by_page_size(start_at, issues) == start_at + MAX_RESULTS

\* C16 mutant: start_at moves one item further than the page reached.
NextStart_skips_item(start_at, issues) == start_at + issues.len + 1

\* start_at += len(issues) (main.py:125)
NextStart(start_at, issues) == start_at + issues.len

\* C6 mutant: the loop goes on until start_at has passed total.
LoopDone_strict(total, start_at) == total # 0 /\ start_at > total

\* if total and start_at >= total: break (main.py:134); the source always
\* reports "total", and 0 is falsy.
LoopDone(total, start_at) == total # 0 /\ start_at >= total

\* The comment bodies the source holds for an item.
CommentsOf(index) == index % 2

VARIABLES
    source,            \* the item count of every project at the source
    scraping_status,   \* the global dict of main.py:20-25
    status_file,       \* STATUS_FILE: whether it exists, the dumped status
    checkpoint_file,   \* CHECKPOINT_FILE: whether it exists, the mapping
    output_file,       \* OUTPUT_FILE: whether it exists, records per item
    last_record,       \* the record written last into the open page
    runs,              \* the background tasks: position and locals
    starts,            \* StartIngestion calls accepted so far
    resets,            \* Reset calls begun so far
    response,          \* HTTP status of the last StartIngestion (0: none)
    unsafe_reset,      \* history: a Reset overlapped an active run
    script,            \* SpecFetch: the server's response stream
    fetched,           \* SpecFetch: what fetch_with_retry returned
    stats,             \* SpecStats: the answer of the last GET /stats
    crashes,           \* SpecCrash: how often the process died so far
    checkpoint_torn,   \* SpecCrash: CHECKPOINT_FILE was left half-written
    status_op          \* SpecStatus: the last update_status call

vars == <<source, scraping_status, status_file, checkpoint_file, output_file,
          last_record, runs, starts, resets, response, unsafe_reset,
          script, fetched, stats, crashes, checkpoint_torn, status_op>>

sys_vars == <<source, scraping_status, status_file, checkpoint_file,
              output_file, last_record, runs, starts, resets, response,
              unsafe_reset>>

fetch_vars == <<script, fetched>>

\* What only the specifications of one operation change.
ext_vars == <<stats, crashes, checkpoint_torn, status_op>>

(***************************************************************************)
(* CommentEnricher, CheckpointStore, StatusTracker.                        *)
(***************************************************************************)

\* What a caller reads from a returned JSON value: fetch_with_retry hands
\* back None, or a payload that has the field the caller looks for
\* ("payload") or lacks it ("malformed": an error document, an empty object).
PayloadShapes == {"wellformed", "malformed"}

JsonOf(result, shape) ==
    IF result = None THEN None
    ELSE IF shape = "wellformed" THEN "payload" ELSE "malformed"

\* C10 mutant: a comment payload without the field is read as one comment.
fetch_comments_reads_malformed(data, index) ==
    IF data = None THEN 0
    ELSE IF data = "malformed" THEN 1
    ELSE CommentsOf(index)

\* fetch_comments (main.py:90-96), after its fetch_with_retry returned data:
\* the number of comment bodies in the returned list.
fetch_comments(data, index) ==
    IF data = None \/ data = "malformed" THEN 0
    ELSE CommentsOf(index)

ZeroOffsets == [p \in Projects |-> 0]

\* A file is a record: whether the path exists, and what it holds (the
\* canonical empty content when it does not exist).
NoCheckpoint == [exists |-> FALSE, offsets |-> ZeroOffsets]

NoRecords == [it \in Items |-> 0]

NoOutput == [exists |-> FALSE, records |-> NoRecords]

\* C4 mutant: the checkpoint file is read before the sink is looked for.
load_checkpoint_file_first(output, checkpoint) ==
    IF checkpoint.exists THEN checkpoint.offsets
    ELSE ZeroOffsets

\* load_checkpoint (main.py:30-37) on the two files.  Every checkpoint the
\* program writes holds all of PROJECTS, so checkpoint.get(project, 0)
\* (main.py:101, 263) is the stored offset.
load_checkpoint(output, checkpoint) ==
    IF ~output.exists THEN ZeroOffsets
    ELSE IF checkpoint.exists THEN checkpoint.offsets
    ELSE ZeroOffsets

\* save_checkpoint (main.py:40-42): a full overwrite.
save_checkpoint(state) == [exists |-> TRUE, offsets |-> state]

\* The initial value of scraping_status (main.py:20-25).
IdleStatus ==
    [is_running |-> FALSE, start_time |-> None, current_project |-> None,
     projects_completed |-> <<>>]

NoStatusFile == [exists |-> FALSE, content |-> IdleStatus]

InSeq(x, seq) == \E n \in 1..Len(seq) : seq[n] = x

\* C14 mutant: completed_project is appended without the membership test.
update_status_appends_always(st, is_running, current_project, completed_project) ==
    LET s1 == IF is_running = None THEN st
              ELSE IF is_running = "True"
              THEN [st EXCEPT !.is_running = TRUE, !.start_time = "now",
                              !.projects_completed = <<>>]
              ELSE [st EXCEPT !.is_running = FALSE, !.start_time = None,
                              !.current_project = None]
        s2 == IF current_project # None
              THEN [s1 EXCEPT !.current_project = current_project]
              ELSE s1
    IN  IF completed_project # None
           /\ Len(s2.projects_completed) < Len(PROJECTS)
        THEN [s2 EXCEPT !.projects_completed = Append(@, completed_project)]
        ELSE s2

\* C15 mutant: is_running=True leaves projects_completed as it is, and
\* is_running=False leaves current_project as it is.
update_status_keeps_fields(st, is_running, current_project, completed_project) ==
    LET s1 == IF is_running = None THEN st
              ELSE IF is_running = "True"
              THEN [st EXCEPT !.is_running = TRUE, !.start_time = "now"]
              ELSE [st EXCEPT !.is_running = FALSE, !.start_time = None]
        s2 == IF current_project # None
              THEN [s1 EXCEPT !.current_project = current_project]
              ELSE s1
    IN  IF completed_project # None
           /\ ~InSeq(completed_project, s2.projects_completed)
        THEN [s2 EXCEPT !.projects_completed = Append(@, completed_project)]
        ELSE s2

\* update_status (main.py:45-60): the new value of scraping_status; an
\* argument left out is None, and is_running is "True" or "False".  The
\* caller dumps the new value to STATUS_FILE (main.py:63-64).
update_status(st, is_running, current_project, completed_project) ==
    LET s1 == IF is_running = None THEN st
              ELSE IF is_running = "True"
              THEN [st EXCEPT !.is_running = TRUE, !.start_time = "now",
                              !.projects_completed = <<>>]
              ELSE [st EXCEPT !.is_running = FALSE, !.start_time = None,
                              !.current_project = None]
        s2 == IF current_project # None
              THEN [s1 EXCEPT !.current_project = current_project]
              ELSE s1
    IN  IF completed_project # None
           /\ ~InSeq(completed_project, s2.projects_completed)
        THEN [s2 EXCEPT !.projects_completed = Append(@, completed_project)]
        ELSE s2

(***************************************************************************)
(* The background runs.  A run's record holds its position (pc), the     *)
(* index k of its project in PROJECTS, the locals of scrape_project        *)
(* (checkpoint, start_at, issues, the loop index i, the state of the file  *)
(* handle), and what a reader of its log would know: the offsets it        *)
(* requested for the current project, which break ended the current loop,  *)
(* whether some loop of the run was aborted, whether an exception left it. *)
(***************************************************************************)
Runs == 1..MaxCalls

RECURSIVE SumOver(_, _)
SumOver(f, S) ==
    IF S = {} THEN 0
    ELSE LET x == CHOOSE y \in S : TRUE IN f[x] + SumOver(f, S \ {x})

\* What the source may hold: any item count per project, at most MaxItems
\* items in all.
Sources ==
    {f \in [Projects -> 0..MaxItems] : SumOver(f, Projects) <= MaxItems}

NoRecord ==
    [written |-> FALSE, project |-> None, index |-> 0, comments |-> 0,
     data |-> None]

NotFetched == [result |-> "pending", requests |-> 0]

NoPage == [first |-> 0, len |-> 0]

\* A slot that holds no task, and the shape every finished task is left in.
IdleRun ==
    [pc |-> "idle", k |-> 1, checkpoint |-> ZeroOffsets, start_at |-> 0,
     issues |-> NoPage, i |-> 0, handle |-> "closed", broke |-> "",
     aborted |-> FALSE, raised |-> FALSE, requested |-> <<>>]

Active(r) == runs[r].pc \notin {"idle", "done"}

AnyActive == \E r \in Runs : Active(r)

Project(r) == PROJECTS[runs[r].k]

\* No GET /stats was answered yet.
NoStats == [status |-> 0, total_issues |-> 0]

\* No update_status call was made yet.
NoOp ==
    [made |-> FALSE, is_running |-> None, current_project |-> None,
     completed_project |-> None, before |-> IdleStatus]

InitExt ==
    /\ stats = NoStats
    /\ crashes = 0
    /\ checkpoint_torn = FALSE
    /\ status_op = NoOp

InitSys ==
    /\ scraping_status = IdleStatus
    /\ status_file = NoStatusFile
    /\ checkpoint_file = NoCheckpoint
    /\ output_file = NoOutput
    /\ last_record = NoRecord
    /\ runs = [r \in Runs |-> IdleRun]
    /\ starts = 0
    /\ resets = 0
    /\ response = 0
    /\ unsafe_reset = FALSE

Init ==
    /\ source \in Sources
    /\ InitSys
    /\ InitExt
    /\ script = <<>>
    /\ fetched = NotFetched

Dump(st) == [exists |-> TRUE, content |-> st]

SetRun(r, new) == runs' = [runs EXCEPT ![r] = new]

(***************************************************************************)
(* POST /scrape: start_scraping (main.py:332-349).  The handler is a       *)
(* coroutine without an await between its test and update_status, so it is *)
(* one step of the event loop.  The task it adds waits at "scrape".  A     *)
(* call that finds is_running set raises HTTPException(409) and changes    *)
(* nothing but the response.                                               *)
(***************************************************************************)
\* C3 mutant: the handler does not look at the flag.
AlreadyRunning_unchecked == FALSE

\* if scraping_status["is_running"] (main.py:335)
AlreadyRunning == scraping_status.is_running

start_scraping ==
    /\ AlreadyRunning \/ starts + resets < MaxCalls
    /\ IF AlreadyRunning
       THEN /\ response' = 409
            /\ UNCHANGED <<scraping_status, status_file, runs, starts>>
       ELSE /\ scraping_status' =
                   update_status(scraping_status, "True", None, None)
            /\ status_file' = Dump(scraping_status')
            /\ SetRun(starts + 1, [IdleRun EXCEPT !.pc = "scrape"])
            /\ starts' = starts + 1
            /\ response' = 200
    /\ UNCHANGED <<source, checkpoint_file, output_file, last_record,
                   resets, unsafe_reset, fetch_vars, ext_vars>>

(***************************************************************************)
(* scrape_project (main.py:99-137), one action per stretch between two     *)
(* suspension points or file operations.                                   *)
(***************************************************************************)

\* C18 mutant: scrape_project keeps only its own project's offset of the
\* mapping it loaded.
scrape_begin_own_offset_only(r) ==
    /\ runs[r].pc = "scrape"
    /\ LET loaded     == load_checkpoint(output_file, checkpoint_file)
           checkpoint == [ZeroOffsets EXCEPT
                             ![Project(r)] = loaded[Project(r)]]
       IN  SetRun(r, [runs[r] EXCEPT !.pc = "fetch",
                                     !.checkpoint = checkpoint,
                                     !.start_at = checkpoint[Project(r)],
                                     !.broke = "",
                                     !.requested = <<>>])
    /\ scraping_status' = update_status(scraping_status, None, Project(r), None)
    /\ status_file' = Dump(scraping_status')
    /\ UNCHANGED <<source, checkpoint_file, output_file, last_record,
                   starts, resets, response, unsafe_reset,
                   fetch_vars, ext_vars>>

\* main.py:100-104: load the checkpoint, set current_project.
scrape_begin(r) ==
    /\ runs[r].pc = "scrape"
    /\ LET checkpoint == load_checkpoint(output_file, checkpoint_file)
       IN  SetRun(r, [runs[r] EXCEPT !.pc = "fetch",
                                     !.checkpoint = checkpoint,
                                     !.start_at = checkpoint[Project(r)],
                                     !.broke = "",
                                     !.requested = <<>>])
    /\ scraping_status' = update_status(scraping_status, None, Project(r), None)
    /\ status_file' = Dump(scraping_status')
    /\ UNCHANGED <<source, checkpoint_file, output_file, last_record,
                   starts, resets, response, unsafe_reset,
                   fetch_vars, ext_vars>>

\* C11 mutant: a page fetch that returns absence is fatal for the whole run.
fetch_page_abort_ends_run(r) ==
    /\ runs[r].pc = "fetch"
    /\ \E result \in FetchOutcomes, shape \in PayloadShapes :
          LET data   == JsonOf(result, shape)
              issues == PageAt(source[Project(r)], runs[r].start_at)
              asked  == Append(runs[r].requested, runs[r].start_at)
          IN  IF data # "payload"
              THEN SetRun(r, [runs[r] EXCEPT !.pc = "finally",
                                             !.broke = "absent",
                                             !.aborted = TRUE,
                                             !.requested = asked])
              ELSE IF issues.len = 0
              THEN SetRun(r, [runs[r] EXCEPT !.pc = "completed",
                                             !.broke = "empty",
                                             !.requested = asked])
              ELSE SetRun(r, [runs[r] EXCEPT !.pc = "open",
                                             !.issues = issues,
                                             !.requested = asked])
    /\ UNCHANGED <<source, scraping_status, status_file, checkpoint_file,
                   output_file, last_record, starts, resets,
                   response, unsafe_reset, fetch_vars, ext_vars>>

\* main.py:108-116: request the page at start_at; break on absence, on a
\* payload without "issues", or on an empty page.
fetch_page(r) ==
    /\ runs[r].pc = "fetch"
    /\ \E result \in FetchOutcomes, shape \in PayloadShapes :
          LET data   == JsonOf(result, shape)
              issues == PageAt(source[Project(r)], runs[r].start_at)
              asked  == Append(runs[r].requested, runs[r].start_at)
          IN  IF data # "payload"
              THEN SetRun(r, [runs[r] EXCEPT !.pc = "completed",
                                             !.broke = "absent",
                                             !.aborted = TRUE,
                                             !.requested = asked])
              ELSE IF issues.len = 0
              THEN SetRun(r, [runs[r] EXCEPT !.pc = "completed",
                                             !.broke = "empty",
                                             !.requested = asked])
              ELSE SetRun(r, [runs[r] EXCEPT !.pc = "open",
                                             !.issues = issues,
                                             !.requested = asked])
    /\ UNCHANGED <<source, scraping_status, status_file, checkpoint_file,
                   output_file, last_record, starts, resets,
                   response, unsafe_reset, fetch_vars, ext_vars>>

\* C2 mutant: the file is opened with mode "w", which truncates it.
open_output_truncates(r) ==
    /\ runs[r].pc = "open"
    /\ output_file' = [exists |-> TRUE, records |-> NoRecords]
    /\ SetRun(r, [runs[r] EXCEPT !.pc = "issue", !.i = 0,
                                 !.handle = "linked"])
    /\ UNCHANGED <<source, scraping_status, status_file, checkpoint_file,
                   last_record, starts, resets, response,
                   unsafe_reset, fetch_vars, ext_vars>>

\* main.py:118: open(OUTPUT_FILE, "a") creates the file when it is missing.
open_output(r) ==
    /\ runs[r].pc = "open"
    /\ output_file' = [output_file EXCEPT !.exists = TRUE]
    /\ SetRun(r, [runs[r] EXCEPT !.pc = "issue", !.i = 0,
                                 !.handle = "linked"])
    /\ UNCHANGED <<source, scraping_status, status_file, checkpoint_file,
                   last_record, starts, resets, response,
                   unsafe_reset, fetch_vars, ext_vars>>

\* main.py:119-123, one iteration: fetch the issue's comments, build the
\* record, write it.  A handle whose file was removed under it writes to an
\* inode no path names.  The record is counted in the file at once; Python
\* may hold it in the handle's buffer, until close_output at the latest.
process_issue(r) ==
    /\ runs[r].pc = "issue"
    /\ runs[r].i < runs[r].issues.len
    /\ \E result \in FetchOutcomes, shape \in PayloadShapes :
          LET data     == JsonOf(result, shape)
              index    == runs[r].issues.first + runs[r].i
              comments == fetch_comments(data, index)
          IN  /\ last_record' =
                    [written |-> TRUE, project |-> Project(r),
                     index |-> index, comments |-> comments, data |-> data]
              /\ output_file' =
                    IF runs[r].handle = "linked"
                    THEN [output_file EXCEPT
                             !.records[<<Project(r), index>>] = @ + 1]
                    ELSE output_file
    /\ SetRun(r, [runs[r] EXCEPT !.i = @ + 1])
    /\ UNCHANGED <<source, scraping_status, status_file, checkpoint_file,
                   starts, resets, response, unsafe_reset,
                   fetch_vars, ext_vars>>

\* C5 mutant: run_scraper without its finally: the exception ends the task.
issue_raises_skips_finally(r) ==
    /\ runs[r].pc = "issue"
    /\ runs[r].i < runs[r].issues.len
    /\ SetRun(r, [IdleRun EXCEPT !.pc = "done", !.raised = TRUE,
                                 !.aborted = runs[r].aborted])
    /\ last_record' = NoRecord
    /\ UNCHANGED <<source, scraping_status, status_file, checkpoint_file,
                   output_file, starts, resets,
                   response, unsafe_reset, fetch_vars, ext_vars>>

\* main.py:120: an element of "issues" that is no JSON object makes
\* issue.get raise; the with block closes the file and the exception leaves
\* scrape_project and the for loop of run_scraper.
issue_raises(r) ==
    /\ runs[r].pc = "issue"
    /\ runs[r].i < runs[r].issues.len
    /\ SetRun(r, [runs[r] EXCEPT !.pc = "finally", !.raised = TRUE,
                                 !.handle = "closed"])
    /\ last_record' = NoRecord
    /\ UNCHANGED <<source, scraping_status, status_file, checkpoint_file,
                   output_file, starts, resets,
                   response, unsafe_reset, fetch_vars, ext_vars>>

\* C19 mutant: after the page's last write the loop goes straight to the
\* next request; the checkpoint is not saved first.
close_output_skips_save(r) ==
    /\ runs[r].pc = "issue"
    /\ runs[r].i = runs[r].issues.len
    /\ SetRun(r, [runs[r] EXCEPT
                     !.pc = "fetch", !.handle = "closed",
                     !.start_at = NextStart(runs[r].start_at, runs[r].issues),
                     !.issues = NoPage, !.i = 0])
    /\ last_record' = NoRecord
    /\ UNCHANGED <<source, scraping_status, status_file, checkpoint_file,
                   output_file, starts, resets,
                   response, unsafe_reset, fetch_vars, ext_vars>>

\* The end of the with block (main.py:118-123): the file is closed.
close_output(r) ==
    /\ runs[r].pc = "issue"
    /\ runs[r].i = runs[r].issues.len
    /\ SetRun(r, [runs[r] EXCEPT !.pc = "save", !.handle = "closed"])
    /\ last_record' = NoRecord
    /\ UNCHANGED <<source, scraping_status, status_file, checkpoint_file,
                   output_file, starts, resets,
                   response, unsafe_reset, fetch_vars, ext_vars>>

\* C17 mutant: the checkpoint is saved only when the loop of the project
\* ends, not after every page.
save_page_only_at_end(r) ==
    /\ runs[r].pc = "save"
    /\ LET start_at   == NextStart(runs[r].start_at, runs[r].issues)
           checkpoint == [runs[r].checkpoint EXCEPT ![Project(r)] = start_at]
           total      == source[Project(r)]
       IN  /\ checkpoint_file' = IF LoopDone(total, start_at)
                                 THEN save_checkpoint(checkpoint)
                                 ELSE checkpoint_file
           /\ SetRun(r, [runs[r] EXCEPT
                            !.pc = IF LoopDone(total, start_at)
                                   THEN "completed" ELSE "fetch",
                            !.broke = IF LoopDone(total, start_at)
                                      THEN "total" ELSE "",
                            !.start_at = start_at,
                            !.checkpoint = checkpoint,
                            !.issues = NoPage,
                            !.i = 0])
    /\ UNCHANGED <<source, scraping_status, status_file, output_file,
                   last_record, starts, resets, response,
                   unsafe_reset, fetch_vars, ext_vars>>

\* main.py:125-135: advance start_at, save the checkpoint, read "total",
\* sleep, and leave the loop when total is set and reached.
save_page(r) ==
    /\ runs[r].pc = "save"
    /\ LET start_at   == NextStart(runs[r].start_at, runs[r].issues)
           checkpoint == [runs[r].checkpoint EXCEPT ![Project(r)] = start_at]
           total      == source[Project(r)]
       IN  /\ checkpoint_file' = save_checkpoint(checkpoint)
           /\ SetRun(r, [runs[r] EXCEPT
                            !.pc = IF LoopDone(total, start_at)
                                   THEN "completed" ELSE "fetch",
                            !.broke = IF LoopDone(total, start_at)
                                      THEN "total" ELSE "",
                            !.start_at = start_at,
                            !.checkpoint = checkpoint,
                            !.issues = NoPage,
                            !.i = 0])
    /\ UNCHANGED <<source, scraping_status, status_file, output_file,
                   last_record, starts, resets, response,
                   unsafe_reset, fetch_vars, ext_vars>>

\* C20 mutant: a project whose loop was aborted is not marked completed.
mark_completed_unless_aborted(r) ==
    /\ runs[r].pc = "completed"
    /\ scraping_status' =
          IF runs[r].broke = "absent"
          THEN update_status(scraping_status, None, None, None)
          ELSE update_status(scraping_status, None, None, Project(r))
    /\ status_file' = Dump(scraping_status')
    /\ SetRun(r, [runs[r] EXCEPT
                     !.pc = IF runs[r].k < Len(PROJECTS)
                            THEN "scrape" ELSE "finally",
                     !.k = IF runs[r].k < Len(PROJECTS) THEN @ + 1 ELSE @,
                     !.broke = "",
                     !.requested = <<>>])
    /\ UNCHANGED <<source, checkpoint_file, output_file, last_record,
                   starts, resets, response, unsafe_reset,
                   fetch_vars, ext_vars>>

\* main.py:137, and the for loop of run_scraper (main.py:354-356) moving to
\* the next project or to the finally block.
mark_completed(r) ==
    /\ runs[r].pc = "completed"
    /\ scraping_status' = update_status(scraping_status, None, None, Project(r))
    /\ status_file' = Dump(scraping_status')
    /\ SetRun(r, [runs[r] EXCEPT
                     !.pc = IF runs[r].k < Len(PROJECTS)
                            THEN "scrape" ELSE "finally",
                     !.k = IF runs[r].k < Len(PROJECTS) THEN @ + 1 ELSE @,
                     !.broke = "",
                     !.requested = <<>>])
    /\ UNCHANGED <<source, checkpoint_file, output_file, last_record,
                   starts, resets, response, unsafe_reset,
                   fetch_vars, ext_vars>>

\* run_scraper's finally (main.py:357-358).
run_finally(r) ==
    /\ runs[r].pc = "finally"
    /\ scraping_status' = update_status(scraping_status, "False", None, None)
    /\ status_file' = Dump(scraping_status')
    /\ SetRun(r, [IdleRun EXCEPT !.pc = "done",
                                 !.aborted = runs[r].aborted,
                                 !.raised = runs[r].raised])
    /\ UNCHANGED <<source, checkpoint_file, output_file, last_record,
                   starts, resets, response, unsafe_reset,
                   fetch_vars, ext_vars>>

(***************************************************************************)
(* DELETE /reset: reset_scraper (main.py:298-329): the three files are     *)
(* removed and the global status is set back.  os.remove unlinks the path; *)
(* a run that holds the output file open keeps its handle, and what it     *)
(* writes from then on goes to an inode no path names.                     *)
(***************************************************************************)
\* C13 mutant: Reset leaves STATUS_FILE where it is.
reset_scraper_keeps_status_file ==
    /\ starts + resets < MaxCalls
    /\ checkpoint_file' = NoCheckpoint
    /\ status_file' = status_file
    /\ output_file' = NoOutput
    /\ runs' = [r \in Runs |->
                  IF runs[r].handle = "linked"
                  THEN [runs[r] EXCEPT !.handle = "unlinked"]
                  ELSE runs[r]]
    /\ scraping_status' = IdleStatus
    /\ resets' = resets + 1
    /\ unsafe_reset' = (unsafe_reset \/ AnyActive)
    /\ UNCHANGED <<source, last_record, starts, response, fetch_vars, ext_vars>>

reset_scraper ==
    /\ starts + resets < MaxCalls
    /\ checkpoint_file' = NoCheckpoint
    /\ status_file' = NoStatusFile
    /\ output_file' = NoOutput
    /\ runs' = [r \in Runs |->
                  IF runs[r].handle = "linked"
                  THEN [runs[r] EXCEPT !.handle = "unlinked"]
                  ELSE runs[r]]
    /\ scraping_status' = IdleStatus
    /\ resets' = resets + 1
    /\ unsafe_reset' = (unsafe_reset \/ AnyActive)
    /\ UNCHANGED <<source, last_record, starts, response, fetch_vars, ext_vars>>

\* One step of one background run: run_scraper (main.py:352-358).
run_scraper(r) ==
    \/ scrape_begin(r)
    \/ fetch_page(r)
    \/ open_output(r)
    \/ process_issue(r)
    \/ issue_raises(r)
    \/ close_output(r)
    \/ save_page(r)
    \/ mark_completed(r)
    \/ run_finally(r)

RunStep == \E r \in Runs : run_scraper(r)

Next ==
    \/ start_scraping
    \/ reset_scraper
    \/ RunStep

\* The service under any use.
Spec == Init /\ [][Next]_vars

\* The service used as its interface asks: no Reset overlaps an active run.
NextSafe == Next /\ unsafe_reset' = FALSE

SpecSafe == Init /\ [][NextSafe]_vars

\* The same, with the event loop's scheduling: every await of a run ends
\* (a request times out after 30 s, a sleep is finite), and the loop then
\* resumes the task, so a run that can take a step takes one.
SpecLive == SpecSafe /\ WF_vars(RunStep)

(***************************************************************************)
(* fetch_with_retry on its own: one call against every response stream.    *)
(***************************************************************************)
InitFetch ==
    /\ source = ZeroOffsets
    /\ InitSys
    /\ InitExt
    /\ script \in Scripts
    /\ fetched = NotFetched

FetchCall ==
    /\ fetched = NotFetched
    /\ fetched' = fetch_with_retry(script, Retries)
    /\ UNCHANGED <<sys_vars, script, ext_vars>>

SpecFetch == InitFetch /\ [][FetchCall]_vars

(***************************************************************************)
(* Claims about fetch_with_retry, checked under SpecFetch.                 *)
(***************************************************************************)
Returned == fetched # NotFetched

Is5xx(resp) == Status(resp) >= 500 /\ Status(resp) <= 599

\* The responses after which the loop goes on to its next attempt.
Retried(resp) == resp = "exc" \/ Status(resp) = 429 \/ Is5xx(resp)

\* C7: with budget N = Retries, k < N responses with a 5xx status followed
\* by a successful response make the call return that response's payload,
\* and N responses with a 5xx status make it return None.
C7_ServerErrorsThenSuccess ==
    Returned =>
        /\ \A k \in 0..(Retries - 1) :
              ( /\ \A j \in 1..k : Is5xx(script[j])
                /\ script[k + 1] = "ok" )
              => /\ fetched.result = Body(script[k + 1])
                 /\ fetched.result # None
        /\ (\A j \in 1..Retries : Is5xx(script[j])) => fetched.result = None

\* C7 witness: the success comes at the last attempt of the budget, after
\* server errors of both ends of the 5xx range.
C7_Witness ==
    /\ Returned
    /\ \A j \in 1..(Retries - 1) : Is5xx(script[j])
    /\ script[1] = "r500"
    /\ script[2] = "r599"
    /\ script[Retries] = "ok"
    /\ fetched.result = "payload"
    /\ fetched.requests = Retries

\* C8: a 429 consumes one attempt: whatever mix of 429, 5xx and transport
\* errors the server answers with, the call issues at most Retries
\* requests; a call that got only such answers (N consecutive 429 among
\* them) returns None after exactly Retries requests.
C8_BudgetBoundsRequests ==
    Returned =>
        /\ fetched.requests <= Retries
        /\ (\A j \in 1..Retries : Retried(script[j]))
              => fetched.result = None /\ fetched.requests = Retries
        /\ \A k \in 1..Retries :
              ( /\ \A j \in 1..(k - 1) : Retried(script[j])
                /\ ~Retried(script[k]) )
              => fetched.requests = k

\* C8 witness: N consecutive 429 responses, and a success that the server
\* would have given to one more request.
C8_Witness ==
    /\ Returned
    /\ \A j \in 1..Retries : script[j] = "r429"
    /\ script[Retries + 1] = "ok"
    /\ fetched.result = None
    /\ fetched.requests = Retries

\* C9: a 404 on any attempt the call reaches returns None at once: the 404
\* is the last request of the call, even with attempts left in the budget.
C9_NotFoundReturnsAtOnce ==
    Returned =>
        \A k \in 1..Retries :
            ( /\ \A j \in 1..(k - 1) : Retried(script[j])
              /\ script[k] = "r404" )
            => fetched.result = None /\ fetched.requests = k

\* C9 witness: a 404 at the second attempt, a success ready for the third.
C9_Witness ==
    /\ Returned
    /\ script[1] = "r500"
    /\ script[2] = "r404"
    /\ script[3] = "ok"
    /\ fetched.result = None
    /\ fetched.requests = 2

(***************************************************************************)
(* Claims about the service.                                               *)
(***************************************************************************)

\* What load() returns in the current state (GetStatus reads it,
\* main.py:258, and so does every scrape_project, main.py:100).
Loaded == load_checkpoint(output_file, checkpoint_file)

\* The number of records in the sink.
SinkRecords == SumOver(output_file.records, Items)

ActiveRuns == {r \in Runs : Active(r)}

\* The step in which run r leaves run_scraper.
Finishes(r) == runs[r].pc # "done" /\ runs'[r].pc = "done"

\* C1: when a run in which no page fetch returned absence (and no exception
\* was raised) finishes, the persisted checkpoint of every project equals
\* the total the source reported for it, whatever offset the run resumed
\* from.
C1_CheckpointReachesTotal ==
    [][\A r \in Runs :
          (Finishes(r) /\ ~runs[r].aborted /\ ~runs[r].raised)
          => \A p \in Projects : Loaded'[p] = source[p]]_vars

\* C1 witness: the second run of a behaviour finished without an abort,
\* after a first run that was cut short, and the checkpoint holds the
\* totals of a source with a project of more than one page.
C1_Witness ==
    /\ runs[2].pc = "done" /\ ~runs[2].aborted /\ ~runs[2].raised
    /\ runs[1].pc = "done" /\ runs[1].aborted
    /\ resets = 0
    /\ \E p \in Projects : source[p] > MAX_RESULTS
    /\ \A p \in Projects : Loaded[p] = source[p]

\* No checkpoint claims progress the sink does not hold: the loaded offsets
\* sum to at most the number of records in the sink.
NoUnbackedProgress == SumOver(Loaded, Projects) <= SinkRecords

\* An offset load() returns grows only in a step after which the sink holds
\* a record of every item the offset moved over, written through a handle
\* that has been closed.
AdvanceFollowsAppend ==
    \A p \in Projects :
        Loaded'[p] > Loaded[p]
        => /\ \A n \in Loaded[p]..(Loaded'[p] - 1) :
                 output_file'.records[<<p, n>>] >= 1
           /\ \A r \in Runs : runs'[r].handle = "closed"

\* C2 as stated: in every reachable state, over any interleaving of
\* StartIngestion, page processing, checkpoint saves and Reset, the loaded
\* offsets sum to at most the records in the sink, and an offset advances
\* only after the durable append of its page.
C2_Original == []NoUnbackedProgress /\ [][AdvanceFollowsAppend]_vars

\* C2 amended: the same, in every behaviour in which no Reset overlaps an
\* active run.
C2_CheckpointBackedBySink ==
    /\ [](~unsafe_reset => NoUnbackedProgress)
    /\ [][~unsafe_reset' => AdvanceFollowsAppend]_vars

\* C2 witness: a checkpoint past the first page of a project, every item
\* below it in the sink, after a Reset between two runs.
C2_Witness ==
    /\ ~unsafe_reset
    /\ resets = 1
    /\ \E p \in Projects :
          /\ Loaded[p] > MAX_RESULTS
          /\ \A n \in 0..(Loaded[p] - 1) : output_file.records[<<p, n>>] >= 1

\* C3 as stated: at no reachable state are two runs active at the same
\* time, for any interleaving of StartIngestion, Reset and the background
\* run.
C3_Original == Cardinality(ActiveRuns) <= 1

\* C3 amended: StartIngestion fails (409) whenever is_running is set; in
\* every behaviour in which no Reset overlaps an active run, is_running is
\* set exactly while a run is active, so at most one run is active.
C3_SingleRun ==
    ~unsafe_reset =>
        /\ Cardinality(ActiveRuns) <= 1
        /\ AnyActive <=> scraping_status.is_running
        /\ response = 409 => starts >= 1

\* C3 witness: a StartIngestion was answered 409 while the run of an
\* earlier one is in the middle of a page.
C3_Witness ==
    /\ ~unsafe_reset
    /\ response = 409
    /\ \E r \in Runs : runs[r].pc = "issue" /\ runs[r].i = 1

\* C4: whenever the sink file does not exist, load() returns offset 0 for
\* every project, whatever the checkpoint file contains.
C4_NoSinkLoadsZero ==
    ~output_file.exists => \A p \in Projects : Loaded[p] = 0

\* C4 witness: the sink is gone and the checkpoint file holds an offset
\* above 0; a scrape_project that loaded in this state starts at 0.
C4_Witness ==
    /\ ~output_file.exists
    /\ checkpoint_file.exists
    /\ \E r \in Runs :
          /\ runs[r].pc = "fetch"
          /\ runs[r].requested = <<>>
          /\ checkpoint_file.offsets[Project(r)] > 0
          /\ runs[r].start_at = 0

\* C5: every run that StartIngestion starts ends, and the step that ends it
\* leaves is_running false, whether its loops ended by exhaustion, by the
\* abort path or by an exception.
C5_RunEnds ==
    /\ \A r \in Runs : Active(r) ~> (runs[r].pc = "done")
    /\ scraping_status.is_running ~> ~scraping_status.is_running
    /\ [][\A r \in Runs : Finishes(r) => ~scraping_status'.is_running]_vars

\* C5 witness: a run that had a loop aborted and was then left by an
\* exception is done, and is_running is false.
C5_Witness ==
    /\ \E r \in Runs :
          runs[r].pc = "done" /\ runs[r].aborted /\ runs[r].raised
    /\ ~AnyActive
    /\ ~scraping_status.is_running

\* ceil(t / p)
CeilDiv(t, p) == (t + p - 1) \div p

\* C6: a loop that starts at offset 0 on a project whose source reports
\* total T > 0 and answers every page requests pages exactly at offsets
\* 0, P, 2P, ... below T: ceil(T / P) requests when it ends, none at an
\* offset >= T, and it ends with start_at and the checkpoint at T.
C6_PagesUpToTotal ==
    \A r \in Runs :
        LET asked == runs[r].requested
            total == source[Project(r)]
        IN  ( /\ Len(asked) >= 1
              /\ asked[1] = 0
              /\ total > 0
              /\ runs[r].broke # "absent" )
            => /\ \A n \in 1..Len(asked) :
                     asked[n] = (n - 1) * MAX_RESULTS /\ asked[n] < total
               /\ runs[r].pc = "completed"
                  => /\ Len(asked) = CeilDiv(total, MAX_RESULTS)
                     /\ runs[r].start_at = total
                     /\ Loaded[Project(r)] = total

\* C6 witness: a loop from offset 0 ended on the total after more than one
\* request, the last page being a short one.
C6_Witness ==
    \E r \in Runs :
        /\ runs[r].pc = "completed"
        /\ runs[r].broke = "total"
        /\ Len(runs[r].requested) >= 2
        /\ runs[r].requested[1] = 0
        /\ source[Project(r)] % MAX_RESULTS # 0
        /\ runs[r].start_at = source[Project(r)]

\* The step in which run r writes the record of one issue.
WritesIssue(r) ==
    /\ runs[r].pc = "issue"
    /\ runs'[r].pc = "issue"
    /\ runs'[r].i = runs[r].i + 1

\* C10: a comment fetch that ends in absence (None, or a payload without
\* "comments") gives the record an empty comment list and does not abort
\* the page: every iteration appends exactly one record, of its own issue,
\* to the sink; the page is saved only after all its issues were written,
\* and the save advances the checkpoint by the length of the page.
C10_CommentFailureDegrades ==
    [][\A r \in Runs :
          /\ WritesIssue(r)
             => /\ last_record'.written
                /\ last_record'.project = Project(r)
                /\ last_record'.index = runs[r].issues.first + runs[r].i
                /\ last_record'.data # "payload" => last_record'.comments = 0
                /\ last_record'.data = "payload"
                   => last_record'.comments = CommentsOf(last_record'.index)
                /\ output_file'.records =
                      [output_file.records EXCEPT
                          ![<<Project(r), last_record'.index>>] = @ + 1]
          /\ (runs[r].pc = "save" /\ runs'[r].pc # "save")
             => /\ runs[r].i = runs[r].issues.len
                /\ Loaded'[Project(r)] =
                      Loaded[Project(r)] + runs[r].issues.len
                /\ Loaded'[Project(r)] = runs'[r].start_at]_vars

\* C10 witness: a full page whose second issue has a comment at the source
\* was written to the end although the comment fetch of that issue came
\* back absent, and the record holds no comment.
C10_Witness ==
    /\ last_record.written
    /\ last_record.data = None
    /\ last_record.comments = 0
    /\ CommentsOf(last_record.index) = 1
    /\ \E r \in Runs :
          /\ runs[r].pc = "issue"
          /\ runs[r].issues.len = MAX_RESULTS
          /\ runs[r].i = runs[r].issues.len
          /\ output_file.records[<<Project(r), last_record.index>>] = 1

\* Run r's page fetch for the k-th project came back absent, or without
\* the "issues" list (main.py:110-112).
AbortedAt(r, k) == runs[r].k = k /\ runs[r].broke = "absent"

\* Run r has issued a page request for the k-th project.
RequestedIn(r, k) == runs[r].k = k /\ Len(runs[r].requested) >= 1

\* C11: a page fetch that returns absence, or a payload without "issues",
\* for the k-th project ends only that project's loop: the run's next step
\* marks the project completed and moves to the next project (to the
\* finally block after the last one), a page request for project k+1
\* follows, and one for every later project of PROJECTS unless an exception
\* raised while a later page is written ends the run first.
C11_AbortEndsOnlyPartition ==
    /\ [][\A r \in Runs :
             (runs[r].broke = "absent" /\ runs'[r] # runs[r])
             => /\ runs[r].k < Len(PROJECTS)
                   => runs'[r].pc = "scrape" /\ runs'[r].k = runs[r].k + 1
                /\ runs[r].k = Len(PROJECTS) => runs'[r].pc = "finally"
                /\ InSeq(Project(r), scraping_status'.projects_completed)]_vars
    /\ \A r \in Runs : \A k \in 1..(Len(PROJECTS) - 1) :
          AbortedAt(r, k) ~> RequestedIn(r, k + 1)
    /\ \A r \in Runs : \A k \in 1..(Len(PROJECTS) - 1) :
          \A j \in (k + 2)..Len(PROJECTS) :
             AbortedAt(r, k) ~> (RequestedIn(r, j) \/ runs[r].raised)

\* C11 witness: the loop of the first project was aborted, and the run is
\* writing a page of the second project and goes on to request the third.
C11_Witness ==
    \E r \in Runs :
        /\ runs[r].aborted
        /\ runs[r].k = 2
        /\ runs[r].broke = ""
        /\ runs[r].pc = "issue"
        /\ runs[r].i >= 1
        /\ source[PROJECTS[1]] > 0
        /\ Loaded[PROJECTS[1]] = 0

(***************************************************************************)
(* GET /stats: get_stats (main.py:281-295) over calculate_stats            *)
(* (main.py:173-234).  Of the aggregates only total_issues is modelled:    *)
(* the count of the lines of OUTPUT_FILE that parse.  The handler runs in  *)
(* a worker thread and may read the file while a run holds it open; what   *)
(* the run wrote into the page is in the file, or still in the handle's    *)
(* buffer, so the scan sees any number of the page's records.              *)
(***************************************************************************)

\* The records a run has written into the page it holds open.
Unflushed ==
    SumOver([r \in Runs |->
                IF runs[r].handle = "linked" THEN runs[r].i ELSE 0], Runs)

\* C12 mutant: a file without a record counts as no data.
calculate_stats_empty_is_none(output, seen) ==
    IF ~output.exists \/ seen = 0
    THEN [found |-> FALSE, total_issues |-> 0]
    ELSE [found |-> TRUE, total_issues |-> seen]

\* calculate_stats: None when OUTPUT_FILE does not exist (main.py:175-176),
\* else the statistics of the seen lines of the file.
calculate_stats(output, seen) ==
    IF ~output.exists
    THEN [found |-> FALSE, total_issues |-> 0]
    ELSE [found |-> TRUE, total_issues |-> seen]

get_stats ==
    /\ \E seen \in (SumOver(output_file.records, Items) - Unflushed)
                     ..SumOver(output_file.records, Items) :
          LET result == calculate_stats(output_file, seen)
          IN  stats' = IF ~result.found
                       THEN [status |-> 404, total_issues |-> 0]
                       ELSE [status |-> 200,
                             total_issues |-> result.total_issues]
    /\ UNCHANGED <<sys_vars, fetch_vars, crashes, checkpoint_torn,
                   status_op>>

NextStats ==
    \/ NextSafe
    \/ get_stats

\* The service with no Reset overlapping a run, and GET /stats at any time.
SpecStats == Init /\ [][NextStats]_vars

\* The step in which a GET /stats is answered (a call that gets the answer
\* of the call before leaves the state as it is).
AnswersStats == stats' # stats

\* C12 as stated: GetStats answers "not found", and never with a statistics
\* object, whenever the sink is absent or holds no record.
C12_Original ==
    [][AnswersStats
       => ( (~output_file.exists \/ SinkRecords = 0)
            => stats'.status = 404 )]_vars

\* C12 amended: GetStats answers "not found" exactly when the sink file
\* does not exist; on a sink file that exists it answers with a statistics
\* object whose total is the number of records it saw in the file, 0 for a
\* file that holds none.
C12_StatsFoundIffSinkExists ==
    [][AnswersStats
       => /\ stats'.status = 404 <=> ~output_file.exists
          /\ stats'.status = 200 <=> output_file.exists
          /\ stats'.status = 200
             => /\ stats'.total_issues <= SinkRecords
                /\ stats'.total_issues >= SinkRecords - Unflushed
          /\ (output_file.exists /\ SinkRecords = 0)
             => stats' = [status |-> 200, total_issues |-> 0]]_vars

\* C12 witness: a run has created the sink file and has not written a
\* record of its first page, and GET /stats was answered with statistics
\* of no issue.
C12_Witness ==
    /\ stats = [status |-> 200, total_issues |-> 0]
    /\ output_file.exists
    /\ SinkRecords = 0
    /\ \E r \in Runs : runs[r].pc = "issue" /\ runs[r].i = 0

\* The step in which a Reset is carried out.
Resets == resets' = resets + 1

\* C13: when Reset completes, none of CHECKPOINT_FILE, STATUS_FILE and
\* OUTPUT_FILE exists, and scraping_status is the initial idle value:
\* is_running false, start_time and current_project None,
\* projects_completed empty.
C13_ResetClearsEverything ==
    [][Resets
       => /\ ~checkpoint_file'.exists
          /\ ~status_file'.exists
          /\ ~output_file'.exists
          /\ Loaded' = ZeroOffsets
          /\ scraping_status'.is_running = FALSE
          /\ scraping_status'.start_time = None
          /\ scraping_status'.current_project = None
          /\ scraping_status'.projects_completed = <<>>]_vars

\* C13 witness: a run over a source with items went to its end, which
\* leaves the three files and a status that lists every project; the Reset
\* that followed left no file and the idle status.
C13_Witness ==
    /\ resets = 1
    /\ starts = 1
    /\ runs[1].pc = "done" /\ ~runs[1].aborted /\ ~runs[1].raised
    /\ \E p \in Projects : source[p] > 0
    /\ ~checkpoint_file.exists
    /\ ~status_file.exists
    /\ ~output_file.exists
    /\ scraping_status = IdleStatus

(***************************************************************************)
(* StatusTracker on its own: update_status (main.py:45-64) called with any *)
(* arguments in any order, and the reset of the status by reset_scraper    *)
(* (main.py:319-322).  setRunning(b) is update_status(is_running=b),       *)
(* setCurrentPartition(p) is update_status(current_project=p) and          *)
(* markCompleted(p) is update_status(completed_project=p); status_op       *)
(* records the arguments of the last call and the status it found.         *)
(***************************************************************************)
StatusArgs ==
    [is_running : {None, "True", "False"},
     current_project : Projects \cup {None},
     completed_project : Projects \cup {None}]

status_call ==
    /\ \E args \in StatusArgs :
          /\ scraping_status' =
                update_status(scraping_status, args.is_running,
                              args.current_project, args.completed_project)
          /\ status_op' =
                [made |-> TRUE, is_running |-> args.is_running,
                 current_project |-> args.current_project,
                 completed_project |-> args.completed_project,
                 before |-> scraping_status]
    /\ status_file' = Dump(scraping_status')
    /\ UNCHANGED <<source, checkpoint_file, output_file, last_record, runs,
                   starts, resets, response, unsafe_reset, fetch_vars,
                   stats, crashes, checkpoint_torn>>

\* main.py:308-311 and 319-322, the part of reset_scraper that the status
\* tracker sees.
status_reset ==
    /\ scraping_status # IdleStatus \/ status_file.exists
    /\ scraping_status' = IdleStatus
    /\ status_file' = NoStatusFile
    /\ status_op' = NoOp
    /\ UNCHANGED <<source, checkpoint_file, output_file, last_record, runs,
                   starts, resets, response, unsafe_reset, fetch_vars,
                   stats, crashes, checkpoint_torn>>

NextStatus ==
    \/ status_call
    \/ status_reset

\* The status tracker does not look at the source.
InitStatus ==
    /\ source = ZeroOffsets
    /\ InitSys
    /\ InitExt
    /\ script = <<>>
    /\ fetched = NotFetched

SpecStatus == InitStatus /\ [][NextStatus]_vars

\* How often x occurs in seq.
Occurrences(x, seq) == Cardinality({n \in 1..Len(seq) : seq[n] = x})

\* The last call was markCompleted(p), setRunning(b), with no other argument.
IsMarkCompleted ==
    /\ status_op.made
    /\ status_op.is_running = None
    /\ status_op.current_project = None
    /\ status_op.completed_project # None

IsSetRunning(b) ==
    /\ status_op.made
    /\ status_op.is_running = b
    /\ status_op.current_project = None
    /\ status_op.completed_project = None

\* C14: after any sequence of status operations projects_completed holds no
\* project twice; markCompleted(p) leaves projects_completed unchanged when
\* p is in it, and appends p, once, when it is not.
C14_MarkCompletedIdempotent ==
    /\ \A p \in Projects :
          Occurrences(p, scraping_status.projects_completed) <= 1
    /\ IsMarkCompleted
       => LET p      == status_op.completed_project
              before == status_op.before.projects_completed
          IN  /\ InSeq(p, before)
                 => scraping_status.projects_completed = before
              /\ ~InSeq(p, before)
                 => scraping_status.projects_completed = Append(before, p)
              /\ Occurrences(p, scraping_status.projects_completed) = 1

\* C14 witness: markCompleted(p) was called on a status that already listed
\* p, among other projects, and the list is what it was.
C14_Witness ==
    /\ IsMarkCompleted
    /\ InSeq(status_op.completed_project, status_op.before.projects_completed)
    /\ Len(status_op.before.projects_completed) >= 2
    /\ scraping_status.projects_completed = status_op.before.projects_completed

\* C15: setRunning(true) sets is_running, sets start_time to a value that
\* is not None and empties projects_completed, and leaves current_project;
\* setRunning(false) clears is_running, sets current_project and start_time
\* to None and leaves projects_completed unchanged.
C15_SetRunningEffects ==
    /\ IsSetRunning("True")
       => /\ scraping_status.is_running = TRUE
          /\ scraping_status.start_time # None
          /\ scraping_status.projects_completed = <<>>
          /\ scraping_status.current_project =
                status_op.before.current_project
    /\ IsSetRunning("False")
       => /\ scraping_status.is_running = FALSE
          /\ scraping_status.start_time = None
          /\ scraping_status.current_project = None
          /\ scraping_status.projects_completed =
                status_op.before.projects_completed
    /\ status_file = Dump(scraping_status) \/ ~status_op.made

\* C15 witness: setRunning(false) on a running status with a current
\* project and two completed ones.
C15_Witness ==
    /\ IsSetRunning("False")
    /\ status_op.before.is_running
    /\ status_op.before.start_time # None
    /\ status_op.before.current_project # None
    /\ Len(status_op.before.projects_completed) = 2
    /\ scraping_status.projects_completed = status_op.before.projects_completed
    /\ scraping_status.current_project = None

(***************************************************************************)
(* The process dies while a run is active, and is started again.  The      *)
(* files stay; the module is loaded anew, so scraping_status is its        *)
(* initial value (main.py:20-25) and the task is gone.  Of the records the *)
(* run wrote into the page it held open (main.py:118-123), those still in  *)
(* the handle's buffer are lost: any first part of them is in the file.  A *)
(* death inside save_checkpoint, between the truncating open and the end   *)
(* of json.dump (main.py:41-42), leaves CHECKPOINT_FILE without a JSON     *)
(* document, and json.load raises on it in every later load_checkpoint     *)
(* (main.py:35).                                                           *)
(***************************************************************************)

\* The file after the last `lost` of the `written` records of the page at
\* `first` of project p did not reach it.
DropRecords(output, p, first, written, lost) ==
    [output EXCEPT !.records =
        [it \in Items |->
            IF /\ it[1] = p
               /\ it[2] >= first + (written - lost)
               /\ it[2] < first + written
            THEN output.records[it] - 1
            ELSE output.records[it]]]

process_crash ==
    /\ \E r \in Runs :
          /\ Active(r)
          /\ \E lost \in 0..(IF runs[r].handle = "linked"
                             THEN runs[r].i ELSE 0) :
                output_file' = DropRecords(output_file, Project(r),
                                           runs[r].issues.first,
                                           runs[r].i, lost)
          /\ \E torn \in {checkpoint_torn}
                          \cup (IF runs[r].pc = "save" THEN {TRUE} ELSE {}) :
                checkpoint_torn' = torn
    /\ runs' = [r \in Runs |->
                  IF Active(r)
                  THEN [IdleRun EXCEPT !.pc = "done",
                                       !.aborted = runs[r].aborted,
                                       !.raised = runs[r].raised]
                  ELSE runs[r]]
    /\ scraping_status' = IdleStatus
    /\ last_record' = NoRecord
    /\ crashes' = crashes + 1
    /\ UNCHANGED <<source, status_file, checkpoint_file, starts, resets,
                   response, unsafe_reset, fetch_vars, stats, status_op>>

\* load_checkpoint reads a CHECKPOINT_FILE that holds no JSON document.
LoadRaises == output_file.exists /\ checkpoint_file.exists /\ checkpoint_torn

\* main.py:100 with json.load raising: the exception leaves scrape_project
\* and the for loop of run_scraper.
load_raises(r) ==
    /\ runs[r].pc = "scrape"
    /\ LoadRaises
    /\ SetRun(r, [runs[r] EXCEPT !.pc = "finally", !.raised = TRUE])
    /\ UNCHANGED <<source, scraping_status, status_file, checkpoint_file,
                   output_file, last_record, starts, resets, response,
                   unsafe_reset, fetch_vars, ext_vars>>

NextCrash ==
    \/ start_scraping
    \/ \E r \in Runs :
          /\ ~(runs[r].pc = "scrape" /\ LoadRaises)
          /\ run_scraper(r)
    \/ \E r \in Runs : load_raises(r)
    \/ process_crash

\* The service with crashes, and with neither Reset nor a deletion of the
\* sink.
SpecCrash == Init /\ [][NextCrash]_vars

\* C16: with a crash possible at any step of a run, later runs resuming
\* from the persisted checkpoint, no Reset and no deletion of the sink,
\* every item of project p at an index below the persisted offset of p has
\* at least one record in the sink.
C16_AtLeastOnce ==
    ~checkpoint_torn =>
        /\ Loaded = checkpoint_file.offsets
        /\ \A p \in Projects : \A n \in 0..(MaxItems - 1) :
              (n < checkpoint_file.offsets[p] /\ n < source[p])
              => output_file.records[<<p, n>>] >= 1

\* C16 witness: after a crash between the record writes of a page and its
\* checkpoint save, a later run wrote the page again and saved it: an item
\* below the checkpoint has more than one record, with no exception raised
\* in any run.
C16_Witness ==
    /\ crashes >= 1
    /\ ~checkpoint_torn
    /\ \A r \in Runs : ~runs[r].raised
    /\ \E p \in Projects : \E n \in 0..(MaxItems - 1) :
          /\ n < checkpoint_file.offsets[p]
          /\ output_file.records[<<p, n>>] >= 2

\* The records the sink holds for project p at indices from its persisted
\* offset on.
Beyond(p) ==
    SumOver([it \in Items |->
                IF it[1] = p /\ it[2] >= Loaded[p]
                THEN output_file.records[it] ELSE 0], Items)

\* Sink and checkpoint agree: the sink holds the items below every
\* persisted offset, and none from the offset on.
Agreement ==
    \A p \in Projects :
        /\ Beyond(p) = 0
        /\ \A n \in 0..(MaxItems - 1) :
              n < Loaded[p] => output_file.records[<<p, n>>] >= 1

\* Run r was started and has not taken a step.
JustStarted(r) == runs[r].pc = "scrape" /\ runs[r].k = 1

\* C17: the checkpoint is saved after every written page: the step that
\* follows the last write of a page saves the offset behind the page.  So
\* in every state of a run, with no crash, that started with sink and
\* checkpoint in agreement, the sink holds at most MAX_RESULTS records of
\* the current project from its persisted offset on.
C17_AtMostOnePageAhead ==
    /\ \A r \in Runs :
          []( (JustStarted(r) /\ Agreement)
              => [](Active(r) => Beyond(Project(r)) <= MAX_RESULTS) )
    /\ [][\A r \in Runs :
             (runs[r].pc = "save" /\ runs'[r] # runs[r])
             => /\ checkpoint_file'.exists
                /\ checkpoint_file'.offsets[Project(r)] =
                      runs[r].start_at + runs[r].issues.len]_vars

\* C17 witness: a run that started on an empty sink has written a full
\* page of its second project and not yet saved it; the sink is one page
\* ahead of the persisted offset.
C17_Witness ==
    /\ starts = 1
    /\ resets = 0
    /\ runs[1].pc = "save"
    /\ runs[1].k = 2
    /\ runs[1].issues.len = MAX_RESULTS
    /\ Beyond(Project(1)) = MAX_RESULTS
    /\ Loaded[Project(1)] = runs[1].start_at

\* Runs one after the other, some of them with aborted loops or left by an
\* exception, with no Reset and no deletion of the sink.
NextRuns ==
    \/ start_scraping
    \/ RunStep

SpecRuns == Init /\ [][NextRuns]_vars

\* The step in which run r saves the checkpoint.
Saves(r) == runs[r].pc = "save" /\ runs'[r] # runs[r]

\* C18: over any sequence of runs without a Reset and without a deletion
\* of the sink, no step lowers the persisted offset of a project, neither
\* the one in CHECKPOINT_FILE nor the one load() returns; and a save for
\* one project raises that project's offset and leaves the persisted
\* offsets of the other projects as they were.
C18_OffsetsMonotone ==
    /\ [][\A p \in Projects :
             /\ checkpoint_file'.offsets[p] >= checkpoint_file.offsets[p]
             /\ Loaded'[p] >= Loaded[p]]_vars
    /\ [][\A r \in Runs :
             Saves(r)
             => /\ checkpoint_file'.offsets[Project(r)]
                      > checkpoint_file.offsets[Project(r)]
                /\ \A q \in Projects \ {Project(r)} :
                      checkpoint_file'.offsets[q] =
                         checkpoint_file.offsets[q]]_vars

\* C18 witness: after a run with an aborted loop, a second run has saved
\* the last page of the second project, and the offset the first project
\* had reached is still there.
C18_Witness ==
    /\ starts = 2
    /\ runs[1].pc = "done" /\ runs[1].aborted
    /\ runs[2].k = 2
    /\ runs[2].broke = "total"
    /\ checkpoint_file.offsets[PROJECTS[1]] > 0
    /\ checkpoint_file.offsets[PROJECTS[2]] = source[PROJECTS[2]]

\* The step in which run r issues a page request.
Requests(r) == Len(runs'[r].requested) = Len(runs[r].requested) + 1

\* The step in which run r does anything for its current project.
WorksOn(r) == runs'[r] # runs[r] /\ runs[r].pc \notin {"idle", "finally"}

\* C19: within a run the projects are processed one after the other in the
\* order of PROJECTS: when a request for a project is issued, the loops of
\* all projects before it have ended (scrape_project has returned and
\* marked them completed) and no later project is marked; a step for a
\* project is taken only before that project is marked.  Within a project
\* the request for the next page is issued only after every issue of the
\* page before has its record in the sink, the file is closed, and the
\* checkpoint holds the offset behind that page, which is the offset
\* requested.
C19_SequentialProcessing ==
    [][\A r \in Runs :
          /\ Requests(r)
             => /\ \A j \in 1..Len(PROJECTS) :
                      InSeq(PROJECTS[j], scraping_status.projects_completed)
                      <=> j < runs[r].k
                /\ runs'[r].requested[Len(runs'[r].requested)]
                      = runs[r].start_at
                /\ runs[r].handle = "closed"
                /\ Len(runs[r].requested) >= 1
                   => LET last == runs[r].requested[Len(runs[r].requested)]
                      IN  /\ last < runs[r].start_at
                          /\ runs[r].start_at - last <= MAX_RESULTS
                          /\ \A n \in last..(runs[r].start_at - 1) :
                                output_file.records[<<Project(r), n>>] >= 1
                          /\ checkpoint_file.exists
                          /\ checkpoint_file.offsets[Project(r)]
                                = runs[r].start_at
          /\ WorksOn(r)
             => /\ ~InSeq(Project(r), scraping_status.projects_completed)
                /\ runs'[r].k >= runs[r].k \/ runs'[r].pc = "done"]_vars

\* C19 witness: the run is in the loop of the second project, after the
\* first project's loop ended, and has issued the request for the second
\* page after the first page was written and saved.
C19_Witness ==
    \E r \in Runs :
        /\ runs[r].k = 2
        /\ runs[r].requested = <<0, MAX_RESULTS>>
        /\ runs[r].pc = "open"
        /\ scraping_status.projects_completed = <<PROJECTS[1]>>
        /\ checkpoint_file.offsets[PROJECTS[2]] = MAX_RESULTS
        /\ \A n \in 0..(MAX_RESULTS - 1) :
              output_file.records[<<PROJECTS[2], n>>] >= 1

\* GET /status: the "progress" entry of get_status (main.py:258-267) for
\* the given status and files.
get_status(st, output, checkpoint) ==
    [p \in Projects |->
        [scraped   |-> load_checkpoint(output, checkpoint)[p],
         completed |-> InSeq(p, st.projects_completed)]]

\* The step in which scrape_project returns for run r's current project.
Returns(r) == runs[r].pc = "completed" /\ runs'[r] # runs[r]

\* C20: when scrape_project returns for a project, the project is in
\* projects_completed, whether its loop ended on an empty page, on the
\* total, or was aborted by a failed page fetch; so when a run ends without
\* an exception, projects_completed holds every project of PROJECTS, once
\* and in order, and GetStatus reports each as completed.
C20_CompletedIncludesAborted ==
    /\ [][\A r \in Runs :
             Returns(r)
             => /\ runs[r].broke \in {"absent", "empty", "total"}
                /\ InSeq(Project(r), scraping_status'.projects_completed)
                /\ ~InSeq(Project(r), scraping_status.projects_completed)]_vars
    /\ [][\A r \in Runs :
             (Finishes(r) /\ ~runs[r].raised)
             => /\ scraping_status'.projects_completed = PROJECTS
                /\ \A p \in Projects :
                      get_status(scraping_status', output_file',
                                 checkpoint_file')[p].completed]_vars

\* C20 witness: a run ended without an exception and every project is
\* marked completed, the first among them, whose loop was aborted before
\* its checkpoint reached the total of the source.
C20_Witness ==
    /\ starts = 1
    /\ resets = 0
    /\ runs[1].pc = "done" /\ runs[1].aborted /\ ~runs[1].raised
    /\ scraping_status.projects_completed = PROJECTS
    /\ LET progress == get_status(scraping_status, output_file,
                                  checkpoint_file)
       IN  /\ progress[PROJECTS[1]].completed
           /\ progress[PROJECTS[1]].scraped < source[PROJECTS[1]]

====
